---- MODULE Spec2Model ----
(***************************************************************************)
(* Model of crates/evm/evm/src/inspectors/customizable.rs: the handle      *)
(* Customizable that owns one boxed CustomizableInspector, forwards every  *)
(* revm Inspector hook to it through an EVMDataWrap, and gives typed       *)
(* access to it with get_inspector.                                        *)
(***************************************************************************)
EXTENDS Integers, Sequences, FiniteSets, TLC

\* Bounds of the model.
MaxHandles == 2
MaxCount == 3

None == "None"

\* Values of the revm types that the hooks carry.
InstructionResult == {"Continue", "Revert"}
Gas == {0, 1}
Bytes == {<< >>, <<1>>}
Address == {"a1", "a2"}
CallInputs ==
    { [contract |-> "a1", value |-> 0, input |-> << >>],
      [contract |-> "a2", value |-> 1, input |-> <<1>>] }
CreateInputs ==
    { [caller |-> "a1", value |-> 0, init_code |-> <<1>>],
      [caller |-> "a2", value |-> 1, init_code |-> << >>] }
LogRecords ==
    { [address |-> "a1", topics |-> << >>, data |-> << >>],
      [address |-> "a2", topics |-> <<"t1">>, data |-> <<1>>] }
SelfDestructs ==
    { [contract |-> "a1", target |-> "a2", value |-> 0],
      [contract |-> "a2", target |-> "a1", value |-> 1] }
CallOutcomes ==
    { [ret |-> "Continue", remaining_gas |-> 0, out |-> << >>],
      [ret |-> "Revert", remaining_gas |-> 1, out |-> <<1>>] }
CreateOutcomes ==
    { [ret |-> "Continue", address |-> "a1", remaining_gas |-> 0, out |-> << >>],
      [ret |-> "Revert", address |-> None, remaining_gas |-> 1, out |-> <<1>>] }
Interpreter == { [instruction_result |-> s] : s \in InstructionResult }

\* The concrete observer types: DefaultInspector of the source, an observer
\* that overrides only log and counts it, and an observer that overrides
\* every hook and may do anything the hook signatures allow.
Types == {"DefaultInspector", "LogCounter", "Probe"}
ProbeStates == {"idle", "seen"}
Observers ==
    { [type |-> "DefaultInspector", state |-> "unit"] }
    \cup { [type |-> "LogCounter", state |-> 0] }
    \cup { [type |-> "Probe", state |-> s] : s \in ProbeStates }

VARIABLES optimism, handles, boxes, origin, interp, data, last

vars == <<optimism, handles, boxes, origin, interp, data, last>>

\* revm::EVMData as the host holds it; l1_block_info exists only when the
\* crate is built with the optimism feature.
EVMData(opt, err) ==
    IF opt
    THEN [env |-> "env", journaled_state |-> "js", db |-> "db", error |-> err,
          precompiles |-> "pc", l1_block_info |-> "l1"]
    ELSE [env |-> "env", journaled_state |-> "js", db |-> "db", error |-> err,
          precompiles |-> "pc"]

HostContexts == { EVMData(optimism, e) : e \in {None, "DatabaseError"} }


\* A view that leaves l1_block_info out under the optimism feature too.
EVMDataWrap_no_l1(d) ==
    [env |-> d.env, journaled_state |-> d.journaled_state, db |-> d.db,
     error |-> d.error, precompiles |-> d.precompiles]

\* struct EVMDataWrap and its construction from the host's EVMData, the same
\* struct literal in every hook that takes a context.  Each field is a
\* borrow of the same-named field of the context.
EVMDataWrap(d) ==
    IF optimism
    THEN [env |-> d.env, journaled_state |-> d.journaled_state, db |-> d.db,
          error |-> d.error, precompiles |-> d.precompiles,
          l1_block_info |-> d.l1_block_info]
    ELSE [env |-> d.env, journaled_state |-> d.journaled_state, db |-> d.db,
          error |-> d.error, precompiles |-> d.precompiles]

\* A view whose error slot is a copy: what is written to it is lost.
Released_error_copied(d, wrap) ==
    [f \in DOMAIN d |->
        IF f \in DOMAIN wrap /\ f # "error" THEN wrap[f] ELSE d[f]]

\* The fields of the wrap are references into the context: when the wrap is
\* dropped at the end of the hook, the context holds what was written
\* through it, and every field the wrap does not borrow is as it was.
Released(d, wrap) ==
    [f \in DOMAIN d |-> IF f \in DOMAIN wrap THEN wrap[f] ELSE d[f]]

---------------------------------------------------------------------------
\* trait CustomizableInspector: the provided (default) hook bodies.  Each
\* returns the receiver and every &mut argument as the body leaves them,
\* and the hook's return value.

CustomizableInspector_initialize_interp(self, interpreter, wrap) ==
    [self |-> self, interp |-> interpreter, data |-> wrap]

CustomizableInspector_step(self, interpreter, wrap) ==
    [self |-> self, interp |-> interpreter, data |-> wrap]

CustomizableInspector_log(self, wrap, address, topics, bytes) ==
    [self |-> self, data |-> wrap]

CustomizableInspector_step_end(self, interpreter, wrap) ==
    [self |-> self, interp |-> interpreter, data |-> wrap]

CustomizableInspector_call(self, wrap, inputs) ==
    [self |-> self, data |-> wrap, inputs |-> inputs,
     ret |-> <<"Continue", 0, << >> >>]

\* A provided call_end that reports Continue whatever it was given.
CustomizableInspector_call_end_continue(self, wrap, inputs, remaining_gas, ret, out) ==
    [self |-> self, data |-> wrap, ret |-> <<"Continue", remaining_gas, out>>]

CustomizableInspector_call_end(self, wrap, inputs, remaining_gas, ret, out) ==
    [self |-> self, data |-> wrap, ret |-> <<ret, remaining_gas, out>>]

CustomizableInspector_create(self, wrap, inputs) ==
    [self |-> self, data |-> wrap, inputs |-> inputs,
     ret |-> <<"Continue", None, 0, << >> >>]

CustomizableInspector_create_end(self, wrap, inputs, ret, address, remaining_gas, out) ==
    [self |-> self, data |-> wrap, ret |-> <<ret, address, remaining_gas, out>>]

CustomizableInspector_selfdestruct(self, contract, target, value) ==
    [self |-> self]

---------------------------------------------------------------------------
\* Implementers of the trait other than DefaultInspector.

\* An observer that overrides log alone and counts its invocations.
LogCounter_log(self, wrap, address, topics, bytes) ==
    [self |-> [self EXCEPT !.state = @ + 1], data |-> wrap]

\* What an overriding hook body can do with what its signature hands it; r
\* is one choice of it.  It may set its own state, write a field of the view
\* other than env (env is behind a shared reference) or clear the error
\* slot, set the interpreter's result or the returned status, or rewrite a
\* &mut request and the rest of the returned outcome.
Quiet(s) ==
    [state |-> s, status |-> "keep", write |-> <<"none", None>>, amend |-> FALSE]

Writes(wrap) ==
    {<<"error", None>>} \cup { <<f, "written">> : f \in (DOMAIN wrap) \ {"env"} }

Reactions(wrap) ==
    { Quiet(s) : s \in ProbeStates }
    \cup { [Quiet("seen") EXCEPT !.status = st] : st \in InstructionResult }
    \cup { [Quiet("seen") EXCEPT !.amend = TRUE] }
    \cup { [Quiet("seen") EXCEPT !.write = w] : w \in Writes(wrap) }

StateOnly == { Quiet(s) : s \in ProbeStates }

Written(wrap, r) ==
    IF r.write[1] = "none" THEN wrap
    ELSE [wrap EXCEPT ![r.write[1]] = r.write[2]]

RewrittenCall(inputs, r) ==
    IF r.amend
    THEN [inputs EXCEPT !.contract = IF @ = "a1" THEN "a2" ELSE "a1",
                        !.value = 1 - @, !.input = <<7>>]
    ELSE inputs

RewrittenCreate(inputs, r) ==
    IF r.amend
    THEN [inputs EXCEPT !.value = 1 - @, !.init_code = <<7>>]
    ELSE inputs

Status(given, r) == IF r.status = "keep" THEN given ELSE r.status

Probe_interp(self, interpreter, wrap, r) ==
    [self |-> [self EXCEPT !.state = r.state],
     interp |-> [interpreter EXCEPT !.instruction_result = Status(@, r)],
     data |-> Written(wrap, r)]

Probe_log(self, wrap, address, topics, bytes, r) ==
    [self |-> [self EXCEPT !.state = r.state], data |-> Written(wrap, r)]

Probe_call(self, wrap, inputs, r) ==
    [self |-> [self EXCEPT !.state = r.state], data |-> Written(wrap, r),
     inputs |-> RewrittenCall(inputs, r),
     ret |-> <<Status("Continue", r), IF r.amend THEN 1 ELSE 0,
               IF r.amend THEN <<7>> ELSE << >> >>]

Probe_call_end(self, wrap, inputs, remaining_gas, ret, out, r) ==
    [self |-> [self EXCEPT !.state = r.state], data |-> Written(wrap, r),
     ret |-> <<Status(ret, r),
               IF r.amend THEN 1 - remaining_gas ELSE remaining_gas,
               IF r.amend THEN <<7>> ELSE out>>]

Probe_create(self, wrap, inputs, r) ==
    [self |-> [self EXCEPT !.state = r.state], data |-> Written(wrap, r),
     inputs |-> RewrittenCreate(inputs, r),
     ret |-> <<Status("Continue", r), IF r.amend THEN "a2" ELSE None,
               IF r.amend THEN 1 ELSE 0, IF r.amend THEN <<7>> ELSE << >> >>]

Probe_create_end(self, wrap, inputs, ret, address, remaining_gas, out, r) ==
    [self |-> [self EXCEPT !.state = r.state], data |-> Written(wrap, r),
     ret |-> <<Status(ret, r), IF r.amend THEN "a2" ELSE address,
               IF r.amend THEN 1 - remaining_gas ELSE remaining_gas,
               IF r.amend THEN <<7>> ELSE out>>]

Probe_selfdestruct(self, contract, target, value, r) ==
    [self |-> [self EXCEPT !.state = r.state]]

\* The hooks a concrete type overrides; every other hook is the provided body.
Overrides(type) ==
    CASE type = "Probe" ->
           {"initialize_interp", "step", "log", "step_end", "call", "call_end",
            "create", "create_end", "selfdestruct"}
      [] type = "LogCounter" -> {"log"}
      [] OTHER -> {}

---------------------------------------------------------------------------
\* The calls self.inspector.<hook>(...) through Box<dyn CustomizableInspector>:
\* the body that runs is the one of the concrete type in the box.

inspector_initialize_interp(self, interpreter, wrap, r) ==
    IF "initialize_interp" \in Overrides(self.type)
    THEN Probe_interp(self, interpreter, wrap, r)
    ELSE CustomizableInspector_initialize_interp(self, interpreter, wrap)

inspector_step(self, interpreter, wrap, r) ==
    IF "step" \in Overrides(self.type)
    THEN Probe_interp(self, interpreter, wrap, r)
    ELSE CustomizableInspector_step(self, interpreter, wrap)

inspector_log(self, wrap, address, topics, bytes, r) ==
    CASE self.type = "LogCounter" -> LogCounter_log(self, wrap, address, topics, bytes)
      [] self.type = "Probe" -> Probe_log(self, wrap, address, topics, bytes, r)
      [] OTHER -> CustomizableInspector_log(self, wrap, address, topics, bytes)

inspector_step_end(self, interpreter, wrap, r) ==
    IF "step_end" \in Overrides(self.type)
    THEN Probe_interp(self, interpreter, wrap, r)
    ELSE CustomizableInspector_step_end(self, interpreter, wrap)

inspector_call(self, wrap, inputs, r) ==
    IF "call" \in Overrides(self.type)
    THEN Probe_call(self, wrap, inputs, r)
    ELSE CustomizableInspector_call(self, wrap, inputs)

inspector_call_end(self, wrap, inputs, remaining_gas, ret, out, r) ==
    IF "call_end" \in Overrides(self.type)
    THEN Probe_call_end(self, wrap, inputs, remaining_gas, ret, out, r)
    ELSE CustomizableInspector_call_end(self, wrap, inputs, remaining_gas, ret, out)

inspector_create(self, wrap, inputs, r) ==
    IF "create" \in Overrides(self.type)
    THEN Probe_create(self, wrap, inputs, r)
    ELSE CustomizableInspector_create(self, wrap, inputs)

inspector_create_end(self, wrap, inputs, ret, address, remaining_gas, out, r) ==
    IF "create_end" \in Overrides(self.type)
    THEN Probe_create_end(self, wrap, inputs, ret, address, remaining_gas, out, r)
    ELSE CustomizableInspector_create_end(self, wrap, inputs, ret, address, remaining_gas, out)

inspector_selfdestruct(self, contract, target, value, r) ==
    IF "selfdestruct" \in Overrides(self.type)
    THEN Probe_selfdestruct(self, contract, target, value, r)
    ELSE CustomizableInspector_selfdestruct(self, contract, target, value)

---------------------------------------------------------------------------
\* impl Inspector<DB> for Customizable.  self is the observer in the
\* handle's box.  The result holds the box, the &mut arguments and the
\* context as the hook leaves them, the value returned to the host, and
\* inner: the calls made on the inner observer, each with the arguments it
\* was given, in their positions, and what it gave back.

Customizable_initialize_interp(self, interpreter, d, r) ==
    LET wrap == EVMDataWrap(d)
        res == inspector_initialize_interp(self, interpreter, wrap, r)
    IN [inspector |-> res.self, interp |-> res.interp,
        data |-> Released(d, res.data), ret |-> << >>,
        inner |-> << [hook |-> "initialize_interp",
                      args |-> <<interpreter, wrap>>, res |-> res] >>]

Customizable_step(self, interpreter, d, r) ==
    LET wrap == EVMDataWrap(d)
        res == inspector_step(self, interpreter, wrap, r)
    IN [inspector |-> res.self, interp |-> res.interp,
        data |-> Released(d, res.data), ret |-> << >>,
        inner |-> << [hook |-> "step",
                      args |-> <<interpreter, wrap>>, res |-> res] >>]

\* A log hook that builds the view and does not call the inner observer.
Customizable_log_dropped(self, d, address, topics, bytes, r) ==
    [inspector |-> self, data |-> d, ret |-> << >>, inner |-> << >>]

Customizable_log(self, d, address, topics, bytes, r) ==
    LET wrap == EVMDataWrap(d)
        res == inspector_log(self, wrap, address, topics, bytes, r)
    IN [inspector |-> res.self, data |-> Released(d, res.data), ret |-> << >>,
        inner |-> << [hook |-> "log",
                      args |-> <<wrap, address, topics, bytes>>, res |-> res] >>]

Customizable_step_end(self, interpreter, d, r) ==
    LET wrap == EVMDataWrap(d)
        res == inspector_step_end(self, interpreter, wrap, r)
    IN [inspector |-> res.self, interp |-> res.interp,
        data |-> Released(d, res.data), ret |-> << >>,
        inner |-> << [hook |-> "step_end",
                      args |-> <<interpreter, wrap>>, res |-> res] >>]

\* A call hook that hands the inner observer a copy of the request.
Customizable_call_copy(self, d, inputs, r) ==
    LET wrap == EVMDataWrap(d)
        res == inspector_call(self, wrap, inputs, r)
    IN [inspector |-> res.self, inputs |-> inputs,
        data |-> Released(d, res.data), ret |-> res.ret,
        inner |-> << [hook |-> "call",
                      args |-> <<wrap, inputs>>, res |-> res] >>]

Customizable_call(self, d, inputs, r) ==
    LET wrap == EVMDataWrap(d)
        res == inspector_call(self, wrap, inputs, r)
    IN [inspector |-> res.self, inputs |-> res.inputs,
        data |-> Released(d, res.data), ret |-> res.ret,
        inner |-> << [hook |-> "call",
                      args |-> <<wrap, inputs>>, res |-> res] >>]

Customizable_call_end(self, d, inputs, remaining_gas, ret, out, r) ==
    LET wrap == EVMDataWrap(d)
        res == inspector_call_end(self, wrap, inputs, remaining_gas, ret, out, r)
    IN [inspector |-> res.self, inputs |-> inputs,
        data |-> Released(d, res.data), ret |-> res.ret,
        inner |-> << [hook |-> "call_end",
                      args |-> <<wrap, inputs, remaining_gas, ret, out>>,
                      res |-> res] >>]

Customizable_create(self, d, inputs, r) ==
    LET wrap == EVMDataWrap(d)
        res == inspector_create(self, wrap, inputs, r)
    IN [inspector |-> res.self, inputs |-> res.inputs,
        data |-> Released(d, res.data), ret |-> res.ret,
        inner |-> << [hook |-> "create",
                      args |-> <<wrap, inputs>>, res |-> res] >>]

\* A create_end hook that calls the inner observer and returns the outcome
\* it was given instead of the one the inner observer returned.
Customizable_create_end_given(self, d, inputs, ret, address, remaining_gas, out, r) ==
    LET wrap == EVMDataWrap(d)
        res == inspector_create_end(self, wrap, inputs, ret, address,
                                    remaining_gas, out, r)
    IN [inspector |-> res.self, inputs |-> inputs,
        data |-> Released(d, res.data),
        ret |-> <<ret, address, remaining_gas, out>>,
        inner |-> << [hook |-> "create_end",
                      args |-> <<wrap, inputs, ret, address, remaining_gas, out>>,
                      res |-> res] >>]

Customizable_create_end(self, d, inputs, ret, address, remaining_gas, out, r) ==
    LET wrap == EVMDataWrap(d)
        res == inspector_create_end(self, wrap, inputs, ret, address,
                                    remaining_gas, out, r)
    IN [inspector |-> res.self, inputs |-> inputs,
        data |-> Released(d, res.data), ret |-> res.ret,
        inner |-> << [hook |-> "create_end",
                      args |-> <<wrap, inputs, ret, address, remaining_gas, out>>,
                      res |-> res] >>]

Customizable_selfdestruct(self, contract, target, value, r) ==
    LET res == inspector_selfdestruct(self, contract, target, value, r)
    IN [inspector |-> res.self, ret |-> << >>,
        inner |-> << [hook |-> "selfdestruct",
                      args |-> <<contract, target, value>>, res |-> res] >>]

---------------------------------------------------------------------------
\* impl Customizable, Default and Clone.  bx is the heap of boxes; a box is
\* named by its index.  An Option is a sequence of at most one element.

Customizable_new(bx, inspector) ==
    [boxes |-> Append(bx, inspector), inspector |-> Len(bx) + 1]

Customizable_default(bx) ==
    [boxes |-> Append(bx, [type |-> "DefaultInspector", state |-> "unit"]),
     inspector |-> Len(bx) + 1]

\* clone_box of an implementer: Box::new(self.clone()).
clone_box(self) == self

\* A clone that shares the source's box.
Customizable_clone_shared(bx, b) ==
    [boxes |-> bx, inspector |-> b]

Customizable_clone(bx, b) ==
    [boxes |-> Append(bx, clone_box(bx[b])), inspector |-> Len(bx) + 1]

\* A downcast of the Box itself rather than of the observer in it: the
\* type never matches.
get_inspector_of_box(self, T) == << >>

\* A downcast that does not compare the types.
get_inspector_unchecked(self, T) == <<self>>

\* as_any().downcast_ref::<T>()
get_inspector(self, T) ==
    IF self.type = T THEN <<self>> ELSE << >>

---------------------------------------------------------------------------
\* State: optimism is the build's feature flag; handles[h] is the box that
\* handle h owns and boxes[b] the observer in box b; origin[h] is the handle
\* that h was cloned from, 0 for a constructed one; interp and data are the
\* host's interpreter and context as the last hook left them; last records
\* the last operation, its arguments and what it returned.

Handles == 1 .. Len(handles)

Self(h) == boxes[handles[h]]

HookOps ==
    {"initialize_interp", "step", "log", "step_end", "call", "call_end",
     "create", "create_end", "selfdestruct"}

\* The inputs the host draws the events of one execution context from, and
\* the narrower ones used while handles are forked: there the context is the
\* one the last hook left and an overriding observer changes only itself.
Events ==
    [ctx |-> HostContexts, interp |-> Interpreter, log |-> LogRecords,
     call |-> CallInputs, call_end |-> CallOutcomes, create |-> CreateInputs,
     create_end |-> CreateOutcomes, selfdestruct |-> SelfDestructs,
     wide |-> TRUE]

ForkEvents ==
    [ctx |-> {data}, interp |-> {interp},
     log |-> {[address |-> "a1", topics |-> << >>, data |-> << >>]},
     call |-> {[contract |-> "a1", value |-> 0, input |-> << >>]},
     call_end |-> {[ret |-> "Continue", remaining_gas |-> 0, out |-> << >>]},
     create |-> {[caller |-> "a1", value |-> 0, init_code |-> <<1>>]},
     create_end |-> {[ret |-> "Continue", address |-> "a1",
                      remaining_gas |-> 0, out |-> << >>]},
     selfdestruct |-> {[contract |-> "a1", target |-> "a2", value |-> 0]},
     wide |-> FALSE]

\* The choices of the observer in handle h when a hook hands it a view of d.
Choices(ev, h, d) ==
    IF Self(h).type = "Probe"
    THEN IF ev.wide THEN Reactions(EVMDataWrap(d)) ELSE StateOnly
    ELSE { Quiet("idle") }

Init ==
    /\ optimism \in BOOLEAN
    /\ handles = << >>
    /\ boxes = << >>
    /\ origin = << >>
    /\ interp = [instruction_result |-> "Continue"]
    /\ data = EVMData(optimism, None)
    /\ last = [op |-> "init", h |-> 0]

New(n) ==
    \E O \in Observers :
        /\ Len(handles) < n
        /\ LET res == Customizable_new(boxes, O)
           IN /\ boxes' = res.boxes
              /\ handles' = Append(handles, res.inspector)
              /\ last' = [op |-> "new", h |-> Len(handles) + 1, args |-> <<O>>]
        /\ origin' = Append(origin, 0)
        /\ UNCHANGED <<optimism, interp, data>>

Default(n) ==
    /\ Len(handles) < n
    /\ LET res == Customizable_default(boxes)
       IN /\ boxes' = res.boxes
          /\ handles' = Append(handles, res.inspector)
          /\ last' = [op |-> "default", h |-> Len(handles) + 1]
    /\ origin' = Append(origin, 0)
    /\ UNCHANGED <<optimism, interp, data>>

Clone(n) ==
    \E h \in Handles :
        /\ Len(handles) < n
        /\ LET res == Customizable_clone(boxes, handles[h])
           IN /\ boxes' = res.boxes
              /\ handles' = Append(handles, res.inspector)
              /\ last' = [op |-> "clone", h |-> Len(handles) + 1, src |-> h]
        /\ origin' = Append(origin, h)
        /\ UNCHANGED <<optimism, interp, data>>

GetInspector ==
    \E h \in Handles, T \in Types :
        /\ last' = [op |-> "get_inspector", h |-> h, args |-> <<T>>,
                    ret |-> get_inspector(Self(h), T)]
        /\ UNCHANGED <<optimism, handles, boxes, origin, interp, data>>

\* What every hook does with the result of the handle's method.
Returned(h, op, args, res) ==
    /\ boxes' = [boxes EXCEPT ![handles[h]] = res.inspector]
    /\ last' = [op |-> op, h |-> h, args |-> args, ret |-> res.ret,
                inner |-> res.inner,
                inputs |-> IF op \in {"call", "call_end", "create", "create_end"}
                           THEN <<res.inputs>> ELSE << >>]
    /\ UNCHANGED <<optimism, handles, origin>>

InitializeInterp(ev) ==
    \E h \in Handles, i \in ev.interp, d \in ev.ctx :
      \E r \in Choices(ev, h, d) :
        LET res == Customizable_initialize_interp(Self(h), i, d, r)
        IN /\ Returned(h, "initialize_interp", <<i, d>>, res)
           /\ interp' = res.interp
           /\ data' = res.data

Step(ev) ==
    \E h \in Handles, i \in ev.interp, d \in ev.ctx :
      \E r \in Choices(ev, h, d) :
        LET res == Customizable_step(Self(h), i, d, r)
        IN /\ Returned(h, "step", <<i, d>>, res)
           /\ interp' = res.interp
           /\ data' = res.data

\* The count of a counting observer is capped at MaxCount.
Log(ev) ==
    \E h \in Handles, d \in ev.ctx, l \in ev.log :
      \E r \in Choices(ev, h, d) :
        /\ Self(h).type = "LogCounter" => Self(h).state < MaxCount
        /\ LET res == Customizable_log(Self(h), d, l.address, l.topics, l.data, r)
           IN /\ Returned(h, "log", <<d, l.address, l.topics, l.data>>, res)
              /\ data' = res.data
        /\ UNCHANGED interp

StepEnd(ev) ==
    \E h \in Handles, i \in ev.interp, d \in ev.ctx :
      \E r \in Choices(ev, h, d) :
        LET res == Customizable_step_end(Self(h), i, d, r)
        IN /\ Returned(h, "step_end", <<i, d>>, res)
           /\ interp' = res.interp
           /\ data' = res.data

Call(ev) ==
    \E h \in Handles, d \in ev.ctx, c \in ev.call :
      \E r \in Choices(ev, h, d) :
        LET res == Customizable_call(Self(h), d, c, r)
        IN /\ Returned(h, "call", <<d, c>>, res)
           /\ data' = res.data
           /\ UNCHANGED interp

CallEnd(ev) ==
    \E h \in Handles, d \in ev.ctx, c \in ev.call, o \in ev.call_end :
      \E r \in Choices(ev, h, d) :
        LET res == Customizable_call_end(Self(h), d, c, o.remaining_gas,
                                         o.ret, o.out, r)
        IN /\ Returned(h, "call_end",
                       <<d, c, o.remaining_gas, o.ret, o.out>>, res)
           /\ data' = res.data
           /\ UNCHANGED interp

Create(ev) ==
    \E h \in Handles, d \in ev.ctx, c \in ev.create :
      \E r \in Choices(ev, h, d) :
        LET res == Customizable_create(Self(h), d, c, r)
        IN /\ Returned(h, "create", <<d, c>>, res)
           /\ data' = res.data
           /\ UNCHANGED interp

CreateEnd(ev) ==
    \E h \in Handles, d \in ev.ctx, c \in ev.create, o \in ev.create_end :
      \E r \in Choices(ev, h, d) :
        LET res == Customizable_create_end(Self(h), d, c, o.ret, o.address,
                                           o.remaining_gas, o.out, r)
        IN /\ Returned(h, "create_end",
                       <<d, c, o.ret, o.address, o.remaining_gas, o.out>>, res)
           /\ data' = res.data
           /\ UNCHANGED interp

SelfDestruct(ev) ==
    \E h \in Handles, e \in ev.selfdestruct :
      \E r \in Choices(ev, h, data) :
        LET res == Customizable_selfdestruct(Self(h), e.contract, e.target,
                                             e.value, r)
        IN /\ Returned(h, "selfdestruct", <<e.contract, e.target, e.value>>, res)
           /\ UNCHANGED <<interp, data>>

\* One execution context: the host holds one handle and drives its hooks.
Next ==
    \/ New(1)
    \/ Default(1)
    \/ GetInspector
    \/ InitializeInterp(Events)
    \/ Step(Events)
    \/ Log(Events)
    \/ StepEnd(Events)
    \/ Call(Events)
    \/ CallEnd(Events)
    \/ Create(Events)
    \/ CreateEnd(Events)
    \/ SelfDestruct(Events)

Spec == Init /\ [][Next]_vars

\* Forked contexts: handles are constructed and cloned, up to MaxHandles, and
\* hooks are invoked on any of them in any order.
NextFork ==
    \/ New(MaxHandles)
    \/ Default(MaxHandles)
    \/ Clone(MaxHandles)
    \/ GetInspector
    \/ InitializeInterp(ForkEvents)
    \/ Step(ForkEvents)
    \/ Log(ForkEvents)
    \/ StepEnd(ForkEvents)
    \/ Call(ForkEvents)
    \/ CallEnd(ForkEvents)
    \/ Create(ForkEvents)
    \/ CreateEnd(ForkEvents)
    \/ SelfDestruct(ForkEvents)

SpecFork == Init /\ [][NextFork]_vars

---------------------------------------------------------------------------
\* Properties.  A step that changes the state is the operation that last'
\* records: last holds the operation's arguments and results, and boxes,
\* interp and data are functions of them.

\* The position of the context among a hook's arguments, 0 if it has none.
CtxPos(op) ==
    CASE op \in {"initialize_interp", "step", "step_end"} -> 2
      [] op = "selfdestruct" -> 0
      [] OTHER -> 1

\* The view the inner observer was handed by the last hook.
View == last.inner[1].args[CtxPos(last.op)]

Viewed == last.op \in HookOps \ {"selfdestruct"}

\* C1: after H = Customizable::new(O), get_inspector with O's type is present
\* and yields O as it was before wrapping, and a hook that the observer's
\* type does not override leaves what get_inspector yields unchanged.
C1_TypedRetrieval ==
    [][ /\ last'.op = "new" =>
             get_inspector(boxes'[handles'[last'.h]], last'.args[1].type)
                 = <<last'.args[1]>>
        /\ (last'.op \in HookOps /\ last'.op \notin Overrides(Self(last'.h).type)) =>
             /\ get_inspector(boxes'[handles'[last'.h]], Self(last'.h).type)
                    = <<Self(last'.h)>>
             /\ get_inspector(Self(last'.h), Self(last'.h).type)
                    = <<Self(last'.h)>>
      ]_vars

C1_Witness ==
    /\ last.op = "step_end"
    /\ Self(last.h).type = "LogCounter"
    /\ get_inspector(Self(last.h), "LogCounter")
           = <<[type |-> "LogCounter", state |-> 0]>>

\* C2: a clone owns a box of its own that starts with the source's observer
\* as it is at clone time; cloning leaves every existing handle's observer
\* as it was; a hook on one handle changes the observer of no other handle;
\* no two handles ever own the same box.
C2_CloneIndependent ==
    [][ /\ last'.op = "clone" =>
             /\ boxes'[handles'[last'.h]] = Self(last'.src)
             /\ \A g \in Handles : boxes'[handles'[g]] = Self(g)
        /\ last'.op \in HookOps =>
             \A g \in Handles \ {last'.h} : boxes'[handles'[g]] = Self(g)
        /\ \A g, h \in 1 .. Len(handles') :
             g # h => handles'[g] # handles'[h]
      ]_vars

C2_Witness ==
    /\ last.op = "log"
    /\ \E h \in Handles :
         /\ origin[h] # 0
         /\ last.h = origin[h]
         /\ Self(h) = [type |-> "LogCounter", state |-> 1]
         /\ Self(origin[h]) = [type |-> "LogCounter", state |-> MaxCount]

\* C3: on a handle that holds DefaultInspector every hook is a no-op:
\* initialize_interp, step and step_end leave the interpreter as given; call
\* and create leave the request as given and return Continue with nothing
\* else; call_end and create_end return the outcome they were given; no hook
\* changes the context, the error slot included, nor the observer.
C3_DefaultNoOp ==
    [][ (last'.op \in HookOps /\ Self(last'.h).type = "DefaultInspector") =>
          LET op == last'.op
              a == last'.args
          IN /\ boxes' = boxes
             /\ op \in {"initialize_interp", "step", "step_end"} =>
                  interp' = a[1] /\ data' = a[2]
             /\ op \in {"log", "selfdestruct"} => interp' = interp
             /\ op = "log" => data' = a[1]
             /\ op = "selfdestruct" => data' = data
             /\ op = "call" =>
                  /\ last'.inputs = <<a[2]>>
                  /\ last'.ret = <<"Continue", 0, << >> >>
                  /\ data' = a[1]
             /\ op = "create" =>
                  /\ last'.inputs = <<a[2]>>
                  /\ last'.ret = <<"Continue", None, 0, << >> >>
                  /\ data' = a[1]
             /\ op = "call_end" =>
                  /\ last'.inputs = <<a[2]>>
                  /\ last'.ret = <<a[4], a[3], a[5]>>
                  /\ data' = a[1]
             /\ op = "create_end" =>
                  /\ last'.inputs = <<a[2]>>
                  /\ last'.ret = <<a[3], a[4], a[5], a[6]>>
                  /\ data' = a[1]
      ]_vars

C3_Witness ==
    /\ last.op = "call_end"
    /\ Self(last.h).type = "DefaultInspector"
    /\ last.args[1].error = "DatabaseError"
    /\ data.error = "DatabaseError"
    /\ last.ret = <<"Revert", 1, <<1>> >>

\* C4: every hook of the handle calls the same-named hook of the inner
\* observer exactly once, with the host's arguments in the same positions
\* (the context as its view), and returns what that call returned.
C4_Forwarding ==
    last.op \in HookOps =>
        /\ Len(last.inner) = 1
        /\ last.inner[1].hook = last.op
        /\ last.inner[1].args =
             [i \in 1 .. Len(last.args) |->
                 IF i = CtxPos(last.op) THEN EVMDataWrap(last.args[i])
                 ELSE last.args[i]]
        /\ last.op \in {"call", "call_end", "create", "create_end"} =>
             last.ret = last.inner[1].res.ret
        /\ last.op \notin {"call", "call_end", "create", "create_end"} =>
             last.ret = << >>

C4_Witness ==
    /\ last.op = "create_end"
    /\ Self(last.h).type = "Probe"
    /\ last.args[4] = "a1"
    /\ last.ret[2] = "a2"

\* C5: get_inspector::<T>() on a handle whose observer is not of type T
\* returns None, changes neither the handle nor its observer, and
\* get_inspector with the stored type still yields the observer.
C5_MismatchIsNone ==
    [][ last'.op = "get_inspector" =>
          /\ Self(last'.h).type # last'.args[1] => last'.ret = << >>
          /\ handles' = handles
          /\ boxes' = boxes
          /\ get_inspector(boxes'[handles'[last'.h]], Self(last'.h).type)
                 = <<Self(last'.h)>>
      ]_vars

C5_Witness ==
    /\ last.op = "get_inspector"
    /\ Self(last.h).type = "Probe"
    /\ last.args[1] = "LogCounter"
    /\ last.ret = << >>

\* C6: the handle offers a consuming take::<T>(): whenever a handle exists,
\* a step is possible that returns the owned observer when its type is T and
\* nothing otherwise, after which the handle is gone.
TakeEffect ==
    \E h \in Handles, T \in Types :
        /\ last'.op = "take"
        /\ last'.h = h
        /\ last'.ret = get_inspector(Self(h), T)
        /\ Len(handles') < Len(handles)

C6_TakeOffered ==
    Handles # {} => ENABLED (Next /\ TakeEffect)

\* C7: on a handle that holds a log-counting observer, the count is 0 at
\* construction, every log hook adds exactly one to it and no other
\* operation changes it: the count read back through get_inspector is the
\* number of log hooks the host invoked on the handle.
C7_LogCount ==
    [][ /\ (last'.op = "new" /\ last'.args[1].type = "LogCounter") =>
             get_inspector(boxes'[handles'[last'.h]], "LogCounter")[1].state = 0
        /\ \A h \in Handles :
             Self(h).type = "LogCounter" =>
               get_inspector(boxes'[handles'[h]], "LogCounter")[1].state
                 = Self(h).state
                   + (IF last'.op = "log" /\ last'.h = h THEN 1 ELSE 0)
      ]_vars

C7_Witness ==
    /\ last.op = "get_inspector"
    /\ last.ret = <<[type |-> "LogCounter", state |-> 3]>>

C9_ErrorSlot ==
    [][ /\ (last'.op \in HookOps \ {"selfdestruct"}) =>
             LET op == last'.op
                 in == last'.inner[1]
             IN /\ in.args[CtxPos(op)].error = last'.args[CtxPos(op)].error
                /\ data'.error = in.res.data.error
        /\ last'.op = "selfdestruct" => data'.error = data.error
      ]_vars

C9_Witness ==
    /\ last.op = "step"
    /\ last.args[2].error = None
    /\ data.error = "written"

\* C10: after call or create the host's request is as the inner observer
\* left it; after initialize_interp, step or step_end the host's interpreter
\* is as the inner observer left it; call_end and create_end hand the
\* request over read-only, and the host's request is as it was.
C10_InPlace ==
    /\ last.op \in {"call", "create"} =>
         last.inputs = <<last.inner[1].res.inputs>>
    /\ last.op \in {"initialize_interp", "step", "step_end"} =>
         interp = last.inner[1].res.interp
    /\ last.op \in {"call_end", "create_end"} =>
         /\ last.inputs = <<last.args[2]>>
         /\ "inputs" \notin DOMAIN last.inner[1].res

C10_Witness ==
    /\ last.op = "call"
    /\ last.args[2].contract = "a1"
    /\ last.inputs[1].contract = "a2"
    /\ last.inputs[1].input = <<7>>

====
